---- MODULE Spec2Model ----
(***************************************************************************)
(* Model of libvirt/resource_libvirt_network.go: the libvirt_network       *)
(* resource (Create / Read / Update / Delete / Exists), its definition     *)
(* builder and its address planner (setNetworkIP).                         *)
(*                                                                         *)
(* The libvirt daemon is the environment: every call on it succeeds or     *)
(* fails nondeterministically, and it starts / stops / forgets a network   *)
(* at its own pace.  Every call the handlers issue is appended to `calls`  *)
(* together with its outcome.                                              *)
(***************************************************************************)
EXTENDS Integers, Sequences, FiniteSets, TLC

\* ------------------------------------------------------------------ bounds
\* longest "addresses" list a configuration may carry
MaxAddrs == 2
\* longest "dns.0.forwarders" list a configuration may carry
MaxForwarders == 1

\* ------------------------------------------------------- program constants
netModeIsolated == "none"
netModeNat == "nat"
netModeRoute == "route"
netModeBridge == "bridge"

\* StateChangeConf fields, in seconds
Timeout == 60
Delay == 5
MinTimeout == 3

\* net.IPv4len, net.IPv6len
IPv4len == 4
IPv6len == 16

Nil == "nil"
\* a nil *NetworkIP / *NetworkDHCP
NoIP == [Address |-> <<>>, Prefix |-> 0, Family |-> ""]
NoDHCP == [Start |-> <<>>, End |-> <<>>]

\* =====================================================================
\* Address planner
\* =====================================================================

RECURSIVE Pow2(_)
Pow2(n) == IF n = 0 THEN 1 ELSE 2 * Pow2(n - 1)

\* Go's integer `^` is bitwise exclusive or
RECURSIVE Xor(_, _)
Xor(a, b) ==
    IF a = 0 THEN b
    ELSE IF b = 0 THEN a
    ELSE (((a % 2) + (b % 2)) % 2) + 2 * Xor(a \div 2, b \div 2)

\* number of mask bits that fall into byte i (1-based) of a mask of `ones` bits
MaskBits(ones, i) ==
    LET k == ones - 8 * (i - 1) IN IF k < 0 THEN 0 ELSE IF k > 8 THEN 8 ELSE k

\* ip.Mask(net.CIDRMask(ones, 8*Len(ip))): keep the leading `ones` bits
MaskIP(ip, ones) ==
    [i \in 1..Len(ip) |->
        LET h == Pow2(8 - MaskBits(ones, i)) IN (ip[i] \div h) * h]

\* A CIDR string is modelled by what net.ParseCIDR reads from it: either it
\* is malformed, or it carries an address (4 or 16 bytes) and a prefix length.
Malformed == [wellformed |-> FALSE, ip |-> <<>>, prefix |-> 0]
Cidr(ip, p) == [wellformed |-> TRUE, ip |-> ip, prefix |-> p]

\* net.ParseCIDR: fails on a malformed string and on a prefix longer than the
\* address; otherwise returns the network (address masked by the prefix).
ParseCIDR(address) ==
    IF ~address.wellformed \/ address.prefix > 8 * Len(address.ip)
    THEN [err |-> TRUE, IP |-> <<>>, ones |-> 0, bits |-> 0]
    ELSE [err |-> FALSE,
          IP |-> MaskIP(address.ip, address.prefix),
          ones |-> address.prefix,
          bits |-> 8 * Len(address.ip)]

\* `ipsRange := 2 ^ bits - 2 ^ ones`: in Go `^` and `-` are both additive
\* operators and associate to the left, so this is ((2 xor bits) - 2) xor ones.
IpsRange(bits, ones) == Xor(Xor(2, bits) - 2, ones)

\* networkRange(ipNet): first and last address of the block.
networkRange(ipNet) ==
    [start |-> ipNet.IP,
     end   |-> [i \in 1..Len(ipNet.IP) |->
                   ipNet.IP[i] + Pow2(8 - MaskBits(ipNet.ones, i)) - 1]]

\* b[len(b)-1]++ and b[len(b)-1]-- on a byte slice: the last byte wraps mod 256
IncLast(b) == [b EXCEPT ![Len(b)] = (b[Len(b)] + 1) % 256]
DecLast(b) == [b EXCEPT ![Len(b)] = (b[Len(b)] + 255) % 256]

IpsRangeTooSmall(bits, ones) == IpsRange(bits, ones) < 4

setNetworkIP(address) ==
    LET ipNet == ParseCIDR(address) IN
    IF ipNet.err
    THEN [err |-> "InvalidCIDR", dni |-> NoIP, dhcp |-> NoDHCP]
    ELSE IF IpsRangeTooSmall(ipNet.bits, ipNet.ones)
    THEN [err |-> "RangeTooSmall", dni |-> NoIP, dhcp |-> NoDHCP]
    ELSE LET r == networkRange(ipNet)
             host == IncLast(r.start)
         IN [err  |-> "none",
             dni  |-> [Address |-> host,
                       Prefix  |-> ipNet.ones,
                       Family  |-> IF ipNet.bits = IPv6len * 8 THEN "ipv6" ELSE "ipv4"],
             dhcp |-> [Start |-> IncLast(host), End |-> DecLast(r.end)]]

\* =====================================================================
\* Definition builder (the first half of resourceLibvirtNetworkCreate)
\* =====================================================================

\* strings.ToLower over the mode strings the model feeds in
ToLower(s) ==
    CASE s = "NAT" -> "nat"
      [] s = "None" -> "none"
      [] s = "Isolated" -> "isolated"
      [] s = "Bridge" -> "bridge"
      [] OTHER -> s

\* net.ParseIP followed by ip.String(): Nil for a string that is no IP
\* literal, the canonical text of the address otherwise
ParseIP(s) ==
    CASE s = "8.8.8.8" -> "8.8.8.8"
      [] s = "2001:DB8::1" -> "2001:db8::1"
      [] OTHER -> Nil

Min(S) == CHOOSE x \in S : \A y \in S : x <= y

\* setDhcpByCIDRAdressesSubnets: plan every entry of "addresses" in order,
\* stop at the first entry the planner refuses, drop the DHCP range when
\* dhcp.0.enabled is false.
setDhcpByCIDRAdressesSubnets(addresses, dhcpEnabled) ==
    LET rs  == [i \in 1..Len(addresses) |-> setNetworkIP(addresses[i])]
        bad == {i \in 1..Len(addresses) : rs[i].err # "none"}
    IN IF bad # {}
       THEN [err |-> rs[Min(bad)].err, IPs |-> <<>>]
       ELSE [err |-> "none",
             IPs |-> [i \in 1..Len(addresses) |->
                        [Address |-> rs[i].dni.Address,
                         Prefix  |-> rs[i].dni.Prefix,
                         Family  |-> rs[i].dni.Family,
                         DHCP    |-> IF dhcpEnabled THEN rs[i].dhcp
                                     ELSE NoDHCP]]]

\* a forwarders loop that takes every address as it is written
buildForwarders_unchecked(forwarders) ==
    [err |-> "none",
     Forwarders |-> [i \in 1..Len(forwarders) |->
         [Addr   |-> forwarders[i].address,
          Domain |-> forwarders[i].domain]]]

\* the dns.0.forwarders loop: an entry whose address is set must parse
buildForwarders(forwarders) ==
    LET bad == {i \in 1..Len(forwarders) :
                   forwarders[i].address # "" /\ ParseIP(forwarders[i].address) = Nil}
    IN IF bad # {}
       THEN [err |-> "InvalidForwarderAddress", Forwarders |-> <<>>]
       ELSE [err |-> "none",
             Forwarders |-> [i \in 1..Len(forwarders) |->
                 [Addr   |-> IF forwarders[i].address = "" THEN ""
                             ELSE ParseIP(forwarders[i].address),
                  Domain |-> forwarders[i].domain]]]

NoDef == [Forward |-> Nil, IPs |-> <<>>, DNS |-> <<>>, hasDNS |-> FALSE]

\* a bridge branch that plans the addresses as the other modes do
buildBridge_plansAddresses(c) ==
    LET ips == setDhcpByCIDRAdressesSubnets(c.addresses, c.dhcp) IN
    IF c.bridge = "" THEN [err |-> "MissingBridge", def |-> NoDef]
    ELSE IF ips.err # "none" THEN [err |-> ips.err, def |-> NoDef]
    ELSE [err |-> "none", def |-> [NoDef EXCEPT !.IPs = ips.IPs]]

\* the bridge branch: the bridge name is all it looks at; no forward block,
\* no address planning, no DNS block
buildBridge(c) ==
    IF c.bridge = ""
    THEN [err |-> "MissingBridge", def |-> NoDef]
    ELSE [err |-> "none", def |-> NoDef]

\* lines 228-277: mode check, address planning, DNS forwarders
build(c) ==
    LET mode == ToLower(c.mode) IN
    IF mode \in {netModeIsolated, netModeNat, netModeRoute}
    THEN LET ips == setDhcpByCIDRAdressesSubnets(c.addresses, c.dhcp)
             dns == buildForwarders(c.forwarders)
         IN IF ips.err # "none" THEN [err |-> ips.err, def |-> NoDef]
            ELSE IF dns.err # "none" THEN [err |-> dns.err, def |-> NoDef]
            ELSE [err |-> "none",
                  def |-> [Forward |-> IF mode = netModeIsolated THEN Nil ELSE mode,
                           IPs     |-> ips.IPs,
                           DNS     |-> dns.Forwarders,
                           hasDNS  |-> Len(c.forwarders) > 0]]
    ELSE IF mode = netModeBridge
    THEN buildBridge(c)
    ELSE [err |-> "UnsupportedMode", def |-> NoDef]

\* ------------------------------------------------ configurations fed in
Modes == {"nat", "NAT", "none", "isolated", "route", "bridge", "spanning"}
Bridges == {"", "br0"}
CidrChoices == {Malformed, Cidr(<<10, 0, 0, 0>>, 24), Cidr(<<10, 0, 0, 1>>, 32)}
ForwarderChoices ==
    [address : {"", "8.8.8.8", "not-an-ip"}, domain : {"", "example.com"}]

SeqsUpTo(S, n) == UNION {[1..k -> S] : k \in 0..n}

Configs ==
    [mode       : Modes,
     bridge     : Bridges,
     addresses  : SeqsUpTo(CidrChoices, MaxAddrs),
     dhcp       : BOOLEAN,
     forwarders : SeqsUpTo(ForwarderChoices, MaxForwarders),
     autostart  : BOOLEAN]

\* what Create keeps of a configuration once the definition is built: the
\* build's verdict and whether d.GetOk("autostart") reports a value
BuildOutcomes == {[err |-> build(c).err, autostart |-> c.autostart] : c \in Configs}

\* =====================================================================
\* Read's projection of the definition back into the resource data
\* =====================================================================

\* ip.To4(): the 4-byte form of an IPv4 address, also of one held in the
\* 16-byte IPv4-in-IPv6 form (::ffff:a.b.c.d); <<>> (nil) for any other
To4(ip) ==
    IF Len(ip) = IPv4len THEN ip
    ELSE IF /\ Len(ip) = IPv6len
            /\ \A i \in 1..10 : ip[i] = 0
            /\ ip[11] = 255 /\ ip[12] = 255
    THEN SubSeq(ip, 13, 16)
    ELSE <<>>

\* what fmt.Sprintf("%s/%d", nil, prefix) prints: no address at all
NilNetwork(prefix) == [wellformed |-> FALSE, ip |-> <<>>, prefix |-> prefix]

\* an entry that is written back as the interface address with the prefix
projectAddress_unmasked(address) == Cidr(address.Address, address.Prefix)

\* one entry of "addresses" from one IP block: the interface address masked
\* by CIDRMask(prefix, bits), then "network/prefix". CIDRMask is nil for a
\* prefix longer than bits, and Mask(nil) is nil.
projectAddress(address) ==
    LET addr == address.Address
        bits == IF To4(addr) # <<>> THEN IPv4len * 8 ELSE IPv6len * 8
    IN IF address.Prefix > bits
       THEN NilNetwork(address.Prefix)
       ELSE Cidr(MaskIP(IF To4(addr) # <<>> THEN To4(addr) ELSE addr,
                        address.Prefix),
                 address.Prefix)

\* "addresses" after Read: rewritten only when the definition has IP blocks
readAddresses(IPs, stored) ==
    IF Len(IPs) > 0
    THEN [i \in 1..Len(IPs) |-> projectAddress(IPs[i])]
    ELSE stored

\* a projection that writes every live value, empty or not
projectForwarder_overwrites(stored, live) ==
    [address |-> live.Addr, domain |-> live.Domain]

\* lines 393-399: forwarder i of the resource data after Read; d.Set is
\* called for a live address or domain only when it is not empty
projectForwarder(stored, live) ==
    [address |-> IF live.Addr # "" THEN live.Addr ELSE stored.address,
     domain  |-> IF live.Domain # "" THEN live.Domain ELSE stored.domain]

\* lines 391-401: the forwarders of the live definition are walked by
\* position; entries of the resource data past them are not touched
readForwarders(stored, live) ==
    [i \in 1..Len(stored) |->
        IF i <= Len(live) THEN projectForwarder(stored[i], live[i])
        ELSE stored[i]]

\* =====================================================================
\* Lifecycle: the resource handlers against the libvirt daemon
\* =====================================================================

VARIABLES
    virConnNil,   \* meta.(*Client).libvirt == nil
    svc,          \* the daemon's view of the network: defined / active / autostart
    dId,          \* d.Id(): the recorded resource ID ("" when none)
    dAutostart,   \* the "autostart" attribute held in the resource state
    cfgAutostart, \* the "autostart" value of the configuration being applied
    op,           \* the handler that runs (or ran last)
    pc,           \* its position
    calls,        \* the daemon calls it issued, in order, each with its outcome
    ret,          \* what it returned
    buildErr,     \* verdict of the definition builder in the current Create
    elapsed,      \* seconds since WaitForState was entered
    planIn,       \* address planner in isolation: the CIDR string handed in
    planOut,      \* ... and what setNetworkIP returned for it
    bCfg,         \* definition builder in isolation: the configuration handed in
    bOut,         \* ... what the builder made of it
    bRead,        \* ... and the "addresses" Read derives from that definition
    rStored,      \* Read's DNS projection in isolation: forwarders held in d
    rLive,        \* ... forwarders of the live definition
    rOut,         \* ... forwarders held in d after Read
    rivalPc,      \* a second, concurrent Create of the same network: position
    rivalCalls,   \* ... the daemon calls it issued
    rivalRet,     \* ... what it returned
    rivalId,      \* ... the resource ID it recorded
    rivalElapsed, \* ... seconds since it entered WaitForState
    rivalCfgAutostart, \* ... whether its configuration sets "autostart"
    rivalAutostart     \* ... the "autostart" held in its resource data

\* the variables the handlers of the single-caller lifecycle never touch
builderVars == <<bCfg, bOut, bRead>>
readerVars == <<rStored, rLive, rOut>>
rivalVars == <<rivalPc, rivalCalls, rivalRet, rivalId, rivalElapsed,
               rivalCfgAutostart, rivalAutostart>>
side == <<builderVars, readerVars, rivalVars>>

vars == <<virConnNil, svc, dId, dAutostart, cfgAutostart, op, pc, calls, ret,
          buildErr, elapsed, planIn, planOut, side>>

UUID == "uuid-1"

NoRet == [status |-> "none", why |-> "", value |-> FALSE]
Pending == [err |-> "pending", dni |-> NoIP, dhcp |-> NoDHCP]

Absent == [defined |-> "absent", active |-> "inactive", autostart |-> FALSE]

NoConfig == [mode |-> "", bridge |-> "", addresses |-> <<>>, dhcp |-> FALSE,
             forwarders |-> <<>>]
NotBuilt == [err |-> "pending", def |-> NoDef]

\* the builder, the DNS projection and the rival Create are not in play
BuilderIdle ==
    /\ bCfg = NoConfig
    /\ bOut = NotBuilt
    /\ bRead = <<>>

ReaderIdle ==
    /\ rStored = <<>>
    /\ rLive = <<>>
    /\ rOut = <<>>

RivalAbsent ==
    /\ rivalPc = "absent"
    /\ rivalCalls = <<>>
    /\ rivalRet = NoRet
    /\ rivalId = ""
    /\ rivalElapsed = 0
    /\ rivalCfgAutostart = FALSE
    /\ rivalAutostart = FALSE

\* everything but the daemon's state and the rival Create
mainVars == <<virConnNil, dId, dAutostart, cfgAutostart, op, pc, calls, ret,
              buildErr, elapsed, planIn, planOut>>

SideIdle == BuilderIdle /\ ReaderIdle /\ RivalAbsent

Init ==
    /\ virConnNil \in BOOLEAN
    /\ svc = Absent
    /\ dId = ""
    /\ dAutostart = FALSE
    /\ cfgAutostart = FALSE
    /\ op = "none"
    /\ pc = "idle"
    /\ calls = <<>>
    /\ ret = NoRet
    /\ buildErr = "none"
    /\ elapsed = 0
    /\ planIn = Malformed
    /\ planOut = Pending
    /\ SideIdle

\* --------------------------------------------------------------- helpers
Idle == pc \in {"idle", "done"}

Issue(name, outcome) == calls' = Append(calls, <<name, outcome>>)

Return(status, why, value) ==
    /\ pc' = "done"
    /\ ret' = [status |-> status, why |-> why, value |-> value]

Fail(why) == Return("error", why, FALSE)

Begin(name) ==
    /\ Idle
    /\ op' = name
    /\ calls' = <<>>
    /\ elapsed' = 0

\* outcomes the daemon can give to LookupNetworkByUUIDString
LookupOutcomes ==
    (IF svc.defined = "absent" THEN {"notfound"} ELSE {"found"}) \cup {"err"}

\* outcomes the daemon can give to IsActive
IsActiveOutcomes ==
    {IF svc.active = "active" THEN "true" ELSE "false", "err"}

OkErr == {"ok", "err"}

\* network.Create() accepted by the daemon: the network is brought up
Started == [svc EXCEPT !.active = IF @ = "active" THEN @ ELSE "starting"]

\* ------------------------------------------------- resource.WaitForState
\* (github.com/hashicorp/terraform/helper/resource, StateChangeConf.)
\* What the wait does with one answer of its Refresh function: a refresh
\* error ends the wait with that error, a Target state ends it with success,
\* a state that is neither Target nor Pending ends it with an error, and a
\* Pending state is polled again MinTimeout later unless Timeout would have
\* passed by then.  The first refresh comes Delay after the wait is entered;
\* the daemon calls themselves take no time.
WaitForState(refresh, pending, target, now) ==
    IF refresh.err THEN "fail"
    ELSE IF refresh.state = target THEN "reached"
    ELSE IF refresh.state # pending THEN "unexpected"
    ELSE IF now + MinTimeout > Timeout THEN "timeout"
    ELSE "again"

\* mutant: an IsActive error is reported as "still building"
waitForNetworkActive_swallowsError(active) ==
    IF active = "true" THEN [state |-> "ACTIVE", err |-> FALSE]
    ELSE [state |-> "BUILD", err |-> FALSE]

\* waitForNetworkActive: the Refresh function of Create's wait
waitForNetworkActive(active) ==
    IF active = "err" THEN [state |-> "", err |-> TRUE]
    ELSE IF active = "true" THEN [state |-> "ACTIVE", err |-> FALSE]
    ELSE [state |-> "BUILD", err |-> FALSE]

\* mutant: any lookup error counts as "the network is gone"
waitForNetworkDestroyed_anyErrorIsGone(lookup) ==
    IF lookup = "found" THEN [state |-> "", err |-> FALSE, panic |-> TRUE]
    ELSE [state |-> "NOT-EXISTS", err |-> FALSE, panic |-> FALSE]

\* waitForNetworkDestroyed: the Refresh function of Delete's wait.
\* `err.(libvirt.Error)` panics when the lookup succeeded (err is nil); on any
\* other lookup error the state is "ACTIVE" and the error is handed on, after
\* the deferred network.Free() has run on a nil handle.
waitForNetworkDestroyed(lookup) ==
    IF lookup = "found" THEN [state |-> "", err |-> FALSE, panic |-> TRUE]
    ELSE IF lookup = "notfound" THEN [state |-> "NOT-EXISTS", err |-> FALSE, panic |-> FALSE]
    ELSE [state |-> "ACTIVE", err |-> TRUE, panic |-> FALSE]

\* mutant: the ID is not recorded before the wait
SetId_dropped(id) == ""

\* d.SetId(id)
SetId(id) == id

\* mutant: the autostart flag is applied whether or not it changed
HasChange_always(new, old) == TRUE

\* d.HasChange("autostart")
HasChange(new, old) == new # old

\* mutant: Update re-activates without looking at IsActive's answer
UpdateReactivates_always(active) == TRUE

\* `if !active` before network.Create() in Update and in Delete
UpdateReactivates(active) == active = "false"
DeleteReactivates(active) == active = "false"

\* ---------------------------------------------------------------- Create
\* mutant: a builder error is logged and Create carries on
BuildAborts_ignored(err) == FALSE

\* lines 196-277: nil-connection check, then the whole definition is built
\* before the daemon is contacted; any builder error returns at once.
BuildAborts(err) == err # "none"

CreateBuild ==
    /\ Begin("create")
    /\ dId = ""
    /\ \E o \in BuildOutcomes :
          IF virConnNil
          THEN /\ Fail("LibVirtConIsNil")
               /\ buildErr' = "none"
               /\ UNCHANGED cfgAutostart
          ELSE /\ buildErr' = o.err
               /\ cfgAutostart' = o.autostart
               /\ IF BuildAborts(o.err)
                  THEN Fail(o.err)
                  ELSE pc' = "GetURI" /\ ret' = NoRet
    /\ UNCHANGED <<virConnNil, svc, dId, dAutostart, planIn, planOut, side>>

\* a network freshly defined by NetworkDefineXML
Defined == [defined |-> "defined", active |-> "inactive", autostart |-> FALSE]

\* what the daemon can answer to NetworkDefineXML: it refuses a name it
\* already holds
DefineOutcomes == IF svc.defined = "absent" THEN OkErr ELSE {"err"}

\* a Create that carries on whatever NetworkDefineXML answered
DefineAccepted_always(r) == TRUE

\* lines 292-295: Create goes on only when NetworkDefineXML returned no error
DefineAccepted(r) == r = "ok"

\* lines 280-283
CreateGetURI ==
    /\ op = "create" /\ pc = "GetURI"
    /\ \E r \in OkErr :
          /\ Issue("GetURI", r)
          /\ IF r = "ok" THEN pc' = "NetworkDefineXML" /\ UNCHANGED ret
             ELSE Fail("GetURI")
    /\ UNCHANGED <<virConnNil, svc, dId, dAutostart, cfgAutostart, op, buildErr,
                   elapsed, planIn, planOut, side>>

\* lines 286-295: serialize, then define.  The daemon refuses a name it
\* already holds.
CreateDefine ==
    /\ op = "create" /\ pc = "NetworkDefineXML"
    /\ \/ /\ Fail("xmlMarshallIndented")
          /\ UNCHANGED <<calls, svc>>
       \/ \E r \in DefineOutcomes :
             /\ Issue("NetworkDefineXML", r)
             /\ svc' = IF r = "ok" THEN Defined ELSE svc
             /\ IF DefineAccepted(r)
                THEN pc' = "Create" /\ UNCHANGED ret
                ELSE Fail("NetworkDefineXML")
    /\ UNCHANGED <<virConnNil, dId, dAutostart, cfgAutostart, op, buildErr,
                   elapsed, planIn, planOut, side>>

\* lines 296-299: network.Create()
CreateActivate ==
    /\ op = "create" /\ pc = "Create"
    /\ \E r \in OkErr :
          /\ Issue("Create", r)
          /\ IF r = "ok"
             THEN svc' = Started /\ pc' = "GetUUIDString" /\ UNCHANGED ret
             ELSE Fail("Create") /\ UNCHANGED svc
    /\ UNCHANGED <<virConnNil, dId, dAutostart, cfgAutostart, op, buildErr,
                   elapsed, planIn, planOut, side>>

\* lines 302-323: fetch the UUID, record it, enter the wait (first refresh
\* after Delay)
CreateGetUUID ==
    /\ op = "create" /\ pc = "GetUUIDString"
    /\ \E r \in OkErr :
          /\ Issue("GetUUIDString", r)
          /\ IF r = "ok"
             THEN /\ dId' = SetId(UUID)
                  /\ pc' = "WaitActive"
                  /\ elapsed' = Delay
                  /\ UNCHANGED ret
             ELSE Fail("GetUUIDString") /\ UNCHANGED <<dId, elapsed>>
    /\ UNCHANGED <<virConnNil, svc, dAutostart, cfgAutostart, op, buildErr,
                   planIn, planOut, side>>

\* lines 324-334: one refresh of the wait for ACTIVE; on success go on to
\* SetAutostart when d.GetOk("autostart") reports a value, else to the read
CreateWaitActive ==
    /\ op = "create" /\ pc = "WaitActive"
    /\ \E r \in IsActiveOutcomes :
          /\ Issue("IsActive", r)
          /\ LET w == WaitForState(waitForNetworkActive(r), "BUILD", "ACTIVE", elapsed)
             IN CASE w = "reached" ->
                       /\ pc' = IF cfgAutostart THEN "SetAutostart" ELSE "ReadLookup"
                       /\ UNCHANGED <<ret, elapsed>>
                  [] w = "again" ->
                       /\ elapsed' = elapsed + MinTimeout
                       /\ UNCHANGED <<pc, ret>>
                  [] OTHER ->
                       /\ Fail(w)
                       /\ UNCHANGED elapsed
    /\ UNCHANGED <<virConnNil, svc, dId, dAutostart, cfgAutostart, op, buildErr,
                   planIn, planOut, side>>

\* lines 329-334
CreateSetAutostart ==
    /\ op = "create" /\ pc = "SetAutostart"
    /\ \E r \in OkErr :
          /\ Issue("SetAutostart", r)
          /\ IF r = "ok"
             THEN /\ svc' = [svc EXCEPT !.autostart = cfgAutostart]
                  /\ pc' = "ReadLookup"
                  /\ UNCHANGED ret
             ELSE Fail("SetAutostart") /\ UNCHANGED svc
    /\ UNCHANGED <<virConnNil, dId, dAutostart, cfgAutostart, op, buildErr,
                   elapsed, planIn, planOut, side>>

\* ------------------------------------------------------------------ Read
\* (also the tail of Create, line 336)
ReadBegin ==
    /\ Begin("read")
    /\ dId # ""
    /\ IF virConnNil THEN Fail("LibVirtConIsNil") ELSE pc' = "ReadLookup" /\ ret' = NoRet
    /\ UNCHANGED <<virConnNil, svc, dId, dAutostart, cfgAutostart, buildErr,
                   planIn, planOut, side>>

\* lines 345-349
ReadLookup ==
    /\ op \in {"create", "read"} /\ pc = "ReadLookup"
    /\ \E r \in LookupOutcomes :
          /\ Issue("LookupNetworkByUUIDString", r)
          /\ IF r = "found" THEN pc' = "GetXMLDesc" /\ UNCHANGED ret
             ELSE Fail("LookupNetworkByUUIDString")
    /\ UNCHANGED <<virConnNil, svc, dId, dAutostart, cfgAutostart, op, buildErr,
                   elapsed, planIn, planOut, side>>

\* lines 351-363
ReadGetXML ==
    /\ op \in {"create", "read"} /\ pc = "GetXMLDesc"
    /\ \E r \in OkErr :
          /\ Issue("GetXMLDesc", r)
          /\ IF r = "ok" THEN pc' = "GetAutostart" /\ UNCHANGED ret
             ELSE Fail("GetXMLDesc")
    /\ UNCHANGED <<virConnNil, svc, dId, dAutostart, cfgAutostart, op, buildErr,
                   elapsed, planIn, planOut, side>>

\* lines 365-405
ReadGetAutostart ==
    /\ op \in {"create", "read"} /\ pc = "GetAutostart"
    /\ \E r \in OkErr :
          /\ Issue("GetAutostart", r)
          /\ IF r = "ok"
             THEN /\ dAutostart' = svc.autostart
                  /\ Return("ok", "", FALSE)
             ELSE Fail("GetAutostart") /\ UNCHANGED dAutostart
    /\ UNCHANGED <<virConnNil, svc, dId, cfgAutostart, op, buildErr,
                   elapsed, planIn, planOut, side>>

\* ---------------------------------------------------------------- Update
\* lines 160-164; the configuration applied carries the new "autostart"
UpdateBegin ==
    /\ Begin("update")
    /\ dId # ""
    /\ \E v \in BOOLEAN : cfgAutostart' = v
    /\ IF virConnNil THEN Fail("LibVirtConIsNil") ELSE pc' = "UpdateLookup" /\ ret' = NoRet
    /\ UNCHANGED <<virConnNil, svc, dId, dAutostart, buildErr, planIn, planOut, side>>

\* lines 165-169
UpdateLookup ==
    /\ op = "update" /\ pc = "UpdateLookup"
    /\ \E r \in LookupOutcomes :
          /\ Issue("LookupNetworkByUUIDString", r)
          /\ IF r = "found" THEN pc' = "UpdateIsActive" /\ UNCHANGED ret
             ELSE Fail("LookupNetworkByUUIDString")
    /\ UNCHANGED <<virConnNil, svc, dId, dAutostart, cfgAutostart, op, buildErr,
                   elapsed, planIn, planOut, side>>

\* what follows the activation block of Update (lines 185, 192-193)
UpdateAfterActivation ==
    IF HasChange(cfgAutostart, dAutostart)
    THEN pc' = "UpdateSetAutostart" /\ UNCHANGED ret
    ELSE Return("ok", "", FALSE)

\* lines 173-178
UpdateIsActive ==
    /\ op = "update" /\ pc = "UpdateIsActive"
    /\ \E r \in IsActiveOutcomes :
          /\ Issue("IsActive", r)
          /\ IF r = "err" THEN Fail("IsActive")
             ELSE IF UpdateReactivates(r) THEN pc' = "UpdateActivate" /\ UNCHANGED ret
             ELSE UpdateAfterActivation
    /\ UNCHANGED <<virConnNil, svc, dId, dAutostart, cfgAutostart, op, buildErr,
                   elapsed, planIn, planOut, side>>

\* lines 179-183
UpdateActivate ==
    /\ op = "update" /\ pc = "UpdateActivate"
    /\ \E r \in OkErr :
          /\ Issue("Create", r)
          /\ IF r = "ok" THEN svc' = Started /\ UpdateAfterActivation
             ELSE Fail("Create") /\ UNCHANGED svc
    /\ UNCHANGED <<virConnNil, dId, dAutostart, cfgAutostart, op, buildErr,
                   elapsed, planIn, planOut, side>>

\* lines 185-193
UpdateSetAutostart ==
    /\ op = "update" /\ pc = "UpdateSetAutostart"
    /\ \E r \in OkErr :
          /\ Issue("SetAutostart", r)
          /\ IF r = "ok"
             THEN /\ svc' = [svc EXCEPT !.autostart = cfgAutostart]
                  /\ dAutostart' = cfgAutostart
                  /\ Return("ok", "", FALSE)
             ELSE Fail("SetAutostart") /\ UNCHANGED <<svc, dAutostart>>
    /\ UNCHANGED <<virConnNil, dId, cfgAutostart, op, buildErr,
                   elapsed, planIn, planOut, side>>

\* ---------------------------------------------------------------- Delete
\* lines 408-413
DeleteBegin ==
    /\ Begin("delete")
    /\ dId # ""
    /\ IF virConnNil THEN Fail("LibVirtConIsNil") ELSE pc' = "DeleteLookup" /\ ret' = NoRet
    /\ UNCHANGED <<virConnNil, svc, dId, dAutostart, cfgAutostart, buildErr,
                   planIn, planOut, side>>

\* lines 415-419
DeleteLookup ==
    /\ op = "delete" /\ pc = "DeleteLookup"
    /\ \E r \in LookupOutcomes :
          /\ Issue("LookupNetworkByUUIDString", r)
          /\ IF r = "found" THEN pc' = "DeleteIsActive" /\ UNCHANGED ret
             ELSE Fail("LookupNetworkByUUIDString")
    /\ UNCHANGED <<virConnNil, svc, dId, dAutostart, cfgAutostart, op, buildErr,
                   elapsed, planIn, planOut, side>>

\* lines 421-425
DeleteIsActive ==
    /\ op = "delete" /\ pc = "DeleteIsActive"
    /\ \E r \in IsActiveOutcomes :
          /\ Issue("IsActive", r)
          /\ IF r = "err" THEN Fail("IsActive")
             ELSE /\ pc' = IF DeleteReactivates(r) THEN "DeleteActivate" ELSE "Destroy"
                  /\ UNCHANGED ret
    /\ UNCHANGED <<virConnNil, svc, dId, dAutostart, cfgAutostart, op, buildErr,
                   elapsed, planIn, planOut, side>>

\* lines 426-431
DeleteActivate ==
    /\ op = "delete" /\ pc = "DeleteActivate"
    /\ \E r \in OkErr :
          /\ Issue("Create", r)
          /\ IF r = "ok" THEN svc' = Started /\ pc' = "Destroy" /\ UNCHANGED ret
             ELSE Fail("Create") /\ UNCHANGED svc
    /\ UNCHANGED <<virConnNil, dId, dAutostart, cfgAutostart, op, buildErr,
                   elapsed, planIn, planOut, side>>

\* lines 433-435
DeleteDestroy ==
    /\ op = "delete" /\ pc = "Destroy"
    /\ \E r \in OkErr :
          /\ Issue("Destroy", r)
          /\ IF r = "ok"
             THEN /\ svc' = [svc EXCEPT !.active = "inactive"]
                  /\ pc' = "Undefine"
                  /\ UNCHANGED ret
             ELSE Fail("Destroy") /\ UNCHANGED svc
    /\ UNCHANGED <<virConnNil, dId, dAutostart, cfgAutostart, op, buildErr,
                   elapsed, planIn, planOut, side>>

\* lines 437-448: undefine, then enter the wait (first refresh after Delay).
\* The daemon may keep answering lookups for the network for a while.
DeleteUndefine ==
    /\ op = "delete" /\ pc = "Undefine"
    /\ \E r \in OkErr :
          /\ Issue("Undefine", r)
          /\ IF r = "ok"
             THEN /\ svc' = [svc EXCEPT !.defined = "removing"]
                  /\ pc' = "WaitDestroyed"
                  /\ elapsed' = Delay
                  /\ UNCHANGED ret
             ELSE Fail("Undefine") /\ UNCHANGED <<svc, elapsed>>
    /\ UNCHANGED <<virConnNil, dId, dAutostart, cfgAutostart, op, buildErr,
                   planIn, planOut, side>>

\* what the deferred network.Free() does on the nil handle of a failed lookup
FreeNilHandle == {"returns", "panics"}

\* lines 449-453: one refresh of the wait for NOT-EXISTS
DeleteWaitDestroyed ==
    /\ op = "delete" /\ pc = "WaitDestroyed"
    /\ \E r \in LookupOutcomes, f \in FreeNilHandle :
          /\ Issue("LookupNetworkByUUIDString", r)
          /\ LET refresh == waitForNetworkDestroyed(r) IN
             IF refresh.panic \/ (r = "err" /\ f = "panics")
             THEN Return("panic", "waitForNetworkDestroyed", FALSE) /\ UNCHANGED elapsed
             ELSE LET w == WaitForState(refresh, "ACTIVE", "NOT-EXISTS", elapsed)
                  IN CASE w = "reached" -> Return("ok", "", FALSE) /\ UNCHANGED elapsed
                       [] w = "again" ->
                            /\ elapsed' = elapsed + MinTimeout
                            /\ UNCHANGED <<pc, ret>>
                       [] OTHER -> Fail(w) /\ UNCHANGED elapsed
    /\ UNCHANGED <<virConnNil, svc, dId, dAutostart, cfgAutostart, op, buildErr,
                   planIn, planOut, side>>

\* ---------------------------------------------------------------- Exists
\* lines 141-145
ExistsBegin ==
    /\ Begin("exists")
    /\ dId # ""
    /\ IF virConnNil THEN Fail("LibVirtConIsNil") ELSE pc' = "ExistsLookup" /\ ret' = NoRet
    /\ UNCHANGED <<virConnNil, svc, dId, dAutostart, cfgAutostart, buildErr,
                   planIn, planOut, side>>

\* mutant: ERR_NO_NETWORK is handed on like any other lookup error
ExistsResult_notFoundIsError(lookup) ==
    CASE lookup = "found" -> [status |-> "ok", why |-> "", value |-> TRUE]
      [] OTHER -> [status |-> "error", why |-> "LookupNetworkByUUIDString",
                   value |-> FALSE]

\* lines 146-157: (true, nil) when the lookup succeeds, (false, nil) on
\* ERR_NO_NETWORK, (false, err) on any other lookup error
ExistsResult(lookup) ==
    CASE lookup = "found" -> [status |-> "ok", why |-> "", value |-> TRUE]
      [] lookup = "notfound" -> [status |-> "ok", why |-> "", value |-> FALSE]
      [] OTHER -> [status |-> "error", why |-> "LookupNetworkByUUIDString",
                   value |-> FALSE]

ExistsLookup ==
    /\ op = "exists" /\ pc = "ExistsLookup"
    /\ \E r \in LookupOutcomes :
          /\ Issue("LookupNetworkByUUIDString", r)
          /\ pc' = "done"
          /\ ret' = ExistsResult(r)
    /\ UNCHANGED <<virConnNil, svc, dId, dAutostart, cfgAutostart, op, buildErr,
                   elapsed, planIn, planOut, side>>

\* ------------------------------------------------------------ the daemon
\* a network being started comes up
NetworkComesUp ==
    /\ svc.defined = "defined" /\ svc.active = "starting"
    /\ svc' = [svc EXCEPT !.active = "active"]
    /\ UNCHANGED <<virConnNil, dId, dAutostart, cfgAutostart, op, pc, calls, ret,
                   buildErr, elapsed, planIn, planOut, side>>

\* a running or starting network goes down on its own
NetworkStops ==
    /\ svc.defined = "defined" /\ svc.active # "inactive"
    /\ svc' = [svc EXCEPT !.active = "inactive"]
    /\ UNCHANGED <<virConnNil, dId, dAutostart, cfgAutostart, op, pc, calls, ret,
                   buildErr, elapsed, planIn, planOut, side>>

\* an undefined network stops being reported by lookups
NetworkVanishes ==
    /\ svc.defined = "removing"
    /\ svc' = Absent
    /\ UNCHANGED <<virConnNil, dId, dAutostart, cfgAutostart, op, pc, calls, ret,
                   buildErr, elapsed, planIn, planOut, side>>

Next ==
    \/ CreateBuild \/ CreateGetURI \/ CreateDefine \/ CreateActivate
    \/ CreateGetUUID \/ CreateWaitActive \/ CreateSetAutostart
    \/ ReadBegin \/ ReadLookup \/ ReadGetXML \/ ReadGetAutostart
    \/ UpdateBegin \/ UpdateLookup \/ UpdateIsActive \/ UpdateActivate
    \/ UpdateSetAutostart
    \/ DeleteBegin \/ DeleteLookup \/ DeleteIsActive \/ DeleteActivate
    \/ DeleteDestroy \/ DeleteUndefine \/ DeleteWaitDestroyed
    \/ ExistsBegin \/ ExistsLookup
    \/ NetworkComesUp \/ NetworkStops \/ NetworkVanishes

Spec == Init /\ [][Next]_vars

\* =====================================================================
\* The address planner on its own: setNetworkIP applied to one CIDR string
\* =====================================================================
V4Addresses == {<<10, 0, 0, 0>>, <<192, 168, 100, 0>>, <<10, 0, 0, 5>>, <<10, 0, 0, 255>>}
V6Addresses ==
    {<<253, 0, 0, 0, 0, 0, 0, 0, 0, 0, 0, 0, 0, 0, 0, 0>>,
     <<32, 1, 13, 184, 0, 0, 0, 0, 0, 0, 0, 0, 0, 0, 0, 255>>}

\* every prefix length of either family, and one past the longest
CidrInputs ==
    {Malformed}
      \cup {Cidr(a, p) : a \in V4Addresses, p \in 0..(8 * IPv4len + 1)}
      \cup {Cidr(a, p) : a \in V6Addresses, p \in 0..(8 * IPv6len + 1)}

PlanInit ==
    /\ virConnNil = FALSE
    /\ svc = Absent
    /\ dId = ""
    /\ dAutostart = FALSE
    /\ cfgAutostart = FALSE
    /\ op = "plan"
    /\ pc = "plan"
    /\ calls = <<>>
    /\ ret = NoRet
    /\ buildErr = "none"
    /\ elapsed = 0
    /\ planIn \in CidrInputs
    /\ planOut = Pending
    /\ SideIdle

PlanApply ==
    /\ pc = "plan"
    /\ planOut' = setNetworkIP(planIn)
    /\ pc' = "planned"
    /\ UNCHANGED <<virConnNil, svc, dId, dAutostart, cfgAutostart, op, calls, ret,
                   buildErr, elapsed, planIn, side>>

PlanNext == PlanApply

PlanSpec == PlanInit /\ [][PlanNext]_vars

\* =====================================================================
\* The definition builder and Read's address projection in isolation
\* =====================================================================

BuildModes == Modes \cup {"Isolated", "Bridge"}

\* ::ffff:10.0.0.0, an IPv4 address in its IPv6 spelling
V4InV6 == <<0, 0, 0, 0, 0, 0, 0, 0, 0, 0, 255, 255, 10, 0, 0, 0>>

BuildCidrChoices ==
    {Malformed,
     Cidr(<<10, 0, 0, 0>>, 24),
     Cidr(<<10, 0, 0, 5>>, 24),
     Cidr(<<10, 0, 0, 1>>, 32),
     Cidr(<<253, 0, 0, 0, 0, 0, 0, 0, 0, 0, 0, 0, 0, 0, 0, 0>>, 64),
     Cidr(V4InV6, 120)}

BuildForwarderChoices ==
    {[address |-> "", domain |-> "example.com"],
     [address |-> "2001:DB8::1", domain |-> ""],
     [address |-> "not-an-ip", domain |-> "example.com"]}

BuildConfigs ==
    [mode       : BuildModes,
     bridge     : Bridges,
     addresses  : SeqsUpTo(BuildCidrChoices, MaxAddrs),
     dhcp       : BOOLEAN,
     forwarders : SeqsUpTo(BuildForwarderChoices, MaxForwarders)]

BuildInit ==
    /\ virConnNil = FALSE
    /\ svc = Absent
    /\ dId = ""
    /\ dAutostart = FALSE
    /\ cfgAutostart = FALSE
    /\ op = "build"
    /\ pc = "build"
    /\ calls = <<>>
    /\ ret = NoRet
    /\ buildErr = "none"
    /\ elapsed = 0
    /\ planIn = Malformed
    /\ planOut = Pending
    /\ bCfg \in BuildConfigs
    /\ bOut = NotBuilt
    /\ bRead = bCfg.addresses
    /\ ReaderIdle
    /\ RivalAbsent

\* Create, lines 203-277: the definition is built from the configuration
BuildApply ==
    /\ pc = "build"
    /\ bOut' = build(bCfg)
    /\ pc' = "built"
    /\ UNCHANGED <<virConnNil, svc, dId, dAutostart, cfgAutostart, op, calls, ret,
                   buildErr, elapsed, planIn, planOut, bCfg, bRead,
                   readerVars, rivalVars>>

\* Read, lines 370-389, on the definition as it was built
BuildRead ==
    /\ pc = "built"
    /\ bOut.err = "none"
    /\ bRead' = readAddresses(bOut.def.IPs, bRead)
    /\ pc' = "read"
    /\ UNCHANGED <<virConnNil, svc, dId, dAutostart, cfgAutostart, op, calls, ret,
                   buildErr, elapsed, planIn, planOut, bCfg, bOut,
                   readerVars, rivalVars>>

BuildNext == BuildApply \/ BuildRead

BuildSpec == BuildInit /\ [][BuildNext]_vars

\* =====================================================================
\* Read's projection of the DNS forwarders in isolation
\* =====================================================================

StoredForwarders ==
    [address : {"", "8.8.8.8", "1.1.1.1"}, domain : {"", "example.com", "example.org"}]
LiveForwarders ==
    [Addr : {"", "8.8.8.8", "1.1.1.1"}, Domain : {"", "example.com", "example.org"}]

\* the resource data holds the forwarders of an earlier apply; the live
\* definition may have drifted from them, and has no more of them
ReadInit ==
    /\ virConnNil = FALSE
    /\ svc = Defined
    /\ dId = UUID
    /\ dAutostart = FALSE
    /\ cfgAutostart = FALSE
    /\ op = "read"
    /\ pc = "project"
    /\ calls = <<>>
    /\ ret = NoRet
    /\ buildErr = "none"
    /\ elapsed = 0
    /\ planIn = Malformed
    /\ planOut = Pending
    /\ BuilderIdle
    /\ rStored \in SeqsUpTo(StoredForwarders, MaxForwarders)
    /\ rLive \in SeqsUpTo(LiveForwarders, MaxForwarders)
    /\ Len(rLive) <= Len(rStored)
    /\ rOut = rStored
    /\ RivalAbsent

\* Read, lines 391-401
ReadProject ==
    /\ pc = "project"
    /\ rOut' = readForwarders(rStored, rLive)
    /\ pc' = "projected"
    /\ UNCHANGED <<virConnNil, svc, dId, dAutostart, cfgAutostart, op, calls, ret,
                   buildErr, elapsed, planIn, planOut, builderVars,
                   rStored, rLive, rivalVars>>

ReadNext == ReadProject

ReadSpec == ReadInit /\ [][ReadNext]_vars

\* =====================================================================
\* Two Creates of the same network name running against one daemon
\* =====================================================================

RivalIssue(name, outcome) == rivalCalls' = Append(rivalCalls, <<name, outcome>>)

RivalReturn(status, why) ==
    /\ rivalPc' = "done"
    /\ rivalRet' = [status |-> status, why |-> why, value |-> FALSE]

RivalFail(why) == RivalReturn("error", why)

\* both Creates have built their definition and are about to call the daemon
RaceInit ==
    /\ virConnNil = FALSE
    /\ svc = Absent
    /\ dId = ""
    /\ dAutostart = FALSE
    /\ cfgAutostart \in BOOLEAN
    /\ op = "create"
    /\ pc = "GetURI"
    /\ calls = <<>>
    /\ ret = NoRet
    /\ buildErr = "none"
    /\ elapsed = 0
    /\ planIn = Malformed
    /\ planOut = Pending
    /\ BuilderIdle
    /\ ReaderIdle
    /\ rivalPc = "GetURI"
    /\ rivalCalls = <<>>
    /\ rivalRet = NoRet
    /\ rivalId = ""
    /\ rivalElapsed = 0
    /\ rivalCfgAutostart \in BOOLEAN
    /\ rivalAutostart = FALSE

\* lines 280-283
RivalGetURI ==
    /\ rivalPc = "GetURI"
    /\ \E r \in OkErr :
          /\ RivalIssue("GetURI", r)
          /\ IF r = "ok" THEN rivalPc' = "NetworkDefineXML" /\ UNCHANGED rivalRet
             ELSE RivalFail("GetURI")
    /\ UNCHANGED <<mainVars, svc, builderVars, readerVars, rivalId, rivalElapsed,
                   rivalCfgAutostart, rivalAutostart>>

\* lines 286-295
RivalDefine ==
    /\ rivalPc = "NetworkDefineXML"
    /\ \/ /\ RivalFail("xmlMarshallIndented")
          /\ UNCHANGED <<rivalCalls, svc>>
       \/ \E r \in DefineOutcomes :
             /\ RivalIssue("NetworkDefineXML", r)
             /\ svc' = IF r = "ok" THEN Defined ELSE svc
             /\ IF DefineAccepted(r)
                THEN rivalPc' = "Create" /\ UNCHANGED rivalRet
                ELSE RivalFail("NetworkDefineXML")
    /\ UNCHANGED <<mainVars, builderVars, readerVars, rivalId, rivalElapsed,
                   rivalCfgAutostart, rivalAutostart>>

\* lines 296-299
RivalActivate ==
    /\ rivalPc = "Create"
    /\ \E r \in OkErr :
          /\ RivalIssue("Create", r)
          /\ IF r = "ok"
             THEN svc' = Started /\ rivalPc' = "GetUUIDString" /\ UNCHANGED rivalRet
             ELSE RivalFail("Create") /\ UNCHANGED svc
    /\ UNCHANGED <<mainVars, builderVars, readerVars, rivalId, rivalElapsed,
                   rivalCfgAutostart, rivalAutostart>>

\* lines 302-323
RivalGetUUID ==
    /\ rivalPc = "GetUUIDString"
    /\ \E r \in OkErr :
          /\ RivalIssue("GetUUIDString", r)
          /\ IF r = "ok"
             THEN /\ rivalId' = SetId(UUID)
                  /\ rivalPc' = "WaitActive"
                  /\ rivalElapsed' = Delay
                  /\ UNCHANGED rivalRet
             ELSE RivalFail("GetUUIDString") /\ UNCHANGED <<rivalId, rivalElapsed>>
    /\ UNCHANGED <<mainVars, svc, builderVars, readerVars,
                   rivalCfgAutostart, rivalAutostart>>

\* lines 324-334
RivalWaitActive ==
    /\ rivalPc = "WaitActive"
    /\ \E r \in IsActiveOutcomes :
          /\ RivalIssue("IsActive", r)
          /\ LET w == WaitForState(waitForNetworkActive(r), "BUILD", "ACTIVE",
                                   rivalElapsed)
             IN CASE w = "reached" ->
                       /\ rivalPc' = IF rivalCfgAutostart THEN "SetAutostart"
                                     ELSE "ReadLookup"
                       /\ UNCHANGED <<rivalRet, rivalElapsed>>
                  [] w = "again" ->
                       /\ rivalElapsed' = rivalElapsed + MinTimeout
                       /\ UNCHANGED <<rivalPc, rivalRet>>
                  [] OTHER ->
                       /\ RivalFail(w)
                       /\ UNCHANGED rivalElapsed
    /\ UNCHANGED <<mainVars, svc, builderVars, readerVars, rivalId,
                   rivalCfgAutostart, rivalAutostart>>

\* lines 329-334
RivalSetAutostart ==
    /\ rivalPc = "SetAutostart"
    /\ \E r \in OkErr :
          /\ RivalIssue("SetAutostart", r)
          /\ IF r = "ok"
             THEN /\ svc' = [svc EXCEPT !.autostart = rivalCfgAutostart]
                  /\ rivalPc' = "ReadLookup"
                  /\ UNCHANGED rivalRet
             ELSE RivalFail("SetAutostart") /\ UNCHANGED svc
    /\ UNCHANGED <<mainVars, builderVars, readerVars, rivalId, rivalElapsed,
                   rivalCfgAutostart, rivalAutostart>>

\* line 336 and Read, lines 345-349
RivalReadLookup ==
    /\ rivalPc = "ReadLookup"
    /\ \E r \in LookupOutcomes :
          /\ RivalIssue("LookupNetworkByUUIDString", r)
          /\ IF r = "found" THEN rivalPc' = "GetXMLDesc" /\ UNCHANGED rivalRet
             ELSE RivalFail("LookupNetworkByUUIDString")
    /\ UNCHANGED <<mainVars, svc, builderVars, readerVars, rivalId, rivalElapsed,
                   rivalCfgAutostart, rivalAutostart>>

\* Read, lines 351-363
RivalReadGetXML ==
    /\ rivalPc = "GetXMLDesc"
    /\ \E r \in OkErr :
          /\ RivalIssue("GetXMLDesc", r)
          /\ IF r = "ok" THEN rivalPc' = "GetAutostart" /\ UNCHANGED rivalRet
             ELSE RivalFail("GetXMLDesc")
    /\ UNCHANGED <<mainVars, svc, builderVars, readerVars, rivalId, rivalElapsed,
                   rivalCfgAutostart, rivalAutostart>>

\* Read, lines 365-405
RivalReadGetAutostart ==
    /\ rivalPc = "GetAutostart"
    /\ \E r \in OkErr :
          /\ RivalIssue("GetAutostart", r)
          /\ IF r = "ok"
             THEN /\ rivalAutostart' = svc.autostart
                  /\ RivalReturn("ok", "")
             ELSE RivalFail("GetAutostart") /\ UNCHANGED rivalAutostart
    /\ UNCHANGED <<mainVars, svc, builderVars, readerVars, rivalId, rivalElapsed,
                   rivalCfgAutostart>>

RaceNext ==
    \/ CreateGetURI \/ CreateDefine \/ CreateActivate
    \/ CreateGetUUID \/ CreateWaitActive \/ CreateSetAutostart
    \/ ReadLookup \/ ReadGetXML \/ ReadGetAutostart
    \/ RivalGetURI \/ RivalDefine \/ RivalActivate
    \/ RivalGetUUID \/ RivalWaitActive \/ RivalSetAutostart
    \/ RivalReadLookup \/ RivalReadGetXML \/ RivalReadGetAutostart
    \/ NetworkComesUp \/ NetworkStops

RaceSpec == RaceInit /\ [][RaceNext]_vars

\* =====================================================================
\* Properties
\* =====================================================================
Last(s) == s[Len(s)]
Names(s) == [i \in 1..Len(s) |-> s[i][1]]
Issued(name) == \E i \in 1..Len(calls) : calls[i][1] = name
\* outcomes that let a handler go on to its next step
Succeeded(c) == c[2] \in {"ok", "found", "true", "false"}

\* C1: in every run of Create the daemon calls come in the order define,
\* get-UUID (recorded as the resource ID), activate, IsActive polls,
\* set-autostart, read-back; the ID is recorded before activation is
\* requested; no call is issued unless every earlier one succeeded.
CreateRank(name) ==
    CASE name = "GetURI" -> 0
      [] name = "NetworkDefineXML" -> 1
      [] name = "GetUUIDString" -> 2
      [] name = "Create" -> 3
      [] name = "IsActive" -> 4
      [] name = "SetAutostart" -> 5
      [] name = "LookupNetworkByUUIDString" -> 6
      [] name = "GetXMLDesc" -> 7
      [] name = "GetAutostart" -> 8
      [] OTHER -> 9

C1_CreateOrderUuidBeforeActivate ==
    op = "create" =>
        /\ \A i, j \in 1..Len(calls) :
              i < j => /\ CreateRank(calls[i][1]) <= CreateRank(calls[j][1])
                       /\ Succeeded(calls[i])
        /\ Issued("Create") => (Issued("GetUUIDString") /\ dId = UUID)

\* C2: when building the definition fails, Create returns an error, has
\* issued no daemon call at all and has recorded no resource ID.
C2_BuildFailureIssuesNoCall ==
    (op = "create" /\ buildErr # "none") =>
        /\ pc = "done"
        /\ ret.status = "error"
        /\ ret.why = buildErr
        /\ calls = <<>>
        /\ dId = ""

C2_Witness ==
    /\ op = "create" /\ pc = "done"
    /\ buildErr = "RangeTooSmall"
    /\ ret.status = "error"

\* C3: when Create's wait for ACTIVE runs into its deadline, Create returns an
\* error, has issued neither Destroy nor Undefine, and the network is still
\* defined at the daemon with its UUID recorded as the resource ID.
C3_TimeoutLeavesNetworkDefined ==
    (op = "create" /\ pc = "done" /\ ret.why = "timeout") =>
        /\ ret.status = "error"
        /\ ~Issued("Destroy") /\ ~Issued("Undefine")
        /\ svc.defined = "defined"
        /\ dId = UUID
        /\ \A i \in 1..Len(calls) :
              calls[i][1] = "IsActive" => calls[i][2] = "false"

C3_Witness ==
    /\ op = "create" /\ pc = "done" /\ ret.why = "timeout"
    /\ calls # <<>>
    /\ Last(calls) = <<"IsActive", "false">>
    /\ elapsed + MinTimeout > Timeout

\* C4: Delete on a network found inactive issues Create (activate), Destroy,
\* Undefine in that order, Delete on a network found active omits the
\* activate; lookups of the wait follow a successful Undefine only; Delete
\* returns success only after a lookup of the wait reported not-found; once
\* one of activate / Destroy / Undefine fails nothing more is issued and
\* Delete returns an error.
DeleteHead ==
    <<"LookupNetworkByUUIDString", "IsActive">>
      \o (IF Len(calls) >= 2 /\ calls[2] = <<"IsActive", "false">>
          THEN <<"Create">> ELSE <<>>)
      \o <<"Destroy", "Undefine">>

C4_DeleteOrder ==
    op = "delete" =>
        /\ \A i \in 1..Len(calls) :
              /\ calls[i][1] = IF i <= Len(DeleteHead) THEN DeleteHead[i]
                               ELSE "LookupNetworkByUUIDString"
              /\ i < Len(calls) => Succeeded(calls[i])
        /\ (Len(calls) > 0 /\ Last(calls)[2] = "err"
              /\ Last(calls)[1] \in {"Create", "Destroy", "Undefine"})
              => (pc = "done" /\ ret.status = "error")
        /\ (pc = "done" /\ ret.status = "ok")
              => (Len(calls) > Len(DeleteHead)
                    /\ Last(calls) = <<"LookupNetworkByUUIDString", "notfound">>)

C4_Witness ==
    /\ op = "delete" /\ pc = "done" /\ ret.status = "ok"
    /\ Names(calls) = <<"LookupNetworkByUUIDString", "IsActive", "Create",
                        "Destroy", "Undefine", "LookupNetworkByUUIDString">>

\* C5 (as claimed): in Delete's wait a lookup that fails with an error other
\* than not-found keeps the wait going; Delete fails only on the deadline.
InDeleteWait ==
    /\ op = "delete"
    /\ Len(calls) > Len(DeleteHead)

C5_LookupErrorKeepsPolling ==
    (InDeleteWait /\ Last(calls) = <<"LookupNetworkByUUIDString", "err">>) =>
        \/ pc = "WaitDestroyed"
        \/ (pc = "done" /\ ret.why = "timeout")

\* C6 (as claimed): in Create's wait an IsActive error keeps the wait going;
\* the only failure of the wait is the timeout.
C6_IsActiveErrorKeepsPolling ==
    (op = "create" /\ Len(calls) > 0 /\ Last(calls) = <<"IsActive", "err">>) =>
        \/ pc = "WaitActive"
        \/ (pc = "done" /\ ret.why = "timeout")

\* C6 (amended): an IsActive error ends Create's wait at once: it is the last
\* call Create issues and Create returns an error that is not the timeout;
\* the timeout is returned only after every poll up to the deadline reported
\* "inactive" without error.
NumPolls == Cardinality({i \in 1..Len(calls) : calls[i][1] = "IsActive"})

C6_IsActiveErrorEndsWait ==
    op = "create" =>
        /\ \A i \in 1..Len(calls) :
              calls[i] = <<"IsActive", "err">> =>
                  /\ i = Len(calls)
                  /\ pc = "done"
                  /\ ret.status = "error"
                  /\ ret.why = "fail"
        /\ (pc = "done" /\ ret.why = "timeout") =>
              /\ \A i \in 1..Len(calls) :
                    calls[i][1] = "IsActive" => calls[i][2] = "false"
              /\ Delay + NumPolls * MinTimeout > Timeout

C6_Witness ==
    /\ op = "create" /\ pc = "done"
    /\ calls # <<>>
    /\ Last(calls) = <<"IsActive", "err">>
    /\ NumPolls >= 3
    /\ elapsed + MinTimeout <= Timeout

\* C7 (as claimed): every Update and every Delete whose lookup succeeded
\* issues an activate call whatever IsActive reports.
C7_ReactivationAlwaysAttempted ==
    (op \in {"update", "delete"} /\ Len(calls) >= 3
        /\ calls[1] = <<"LookupNetworkByUUIDString", "found">>)
        => calls[3][1] = "Create"

\* C7 (amended): Update and Delete issue an activate call exactly when
\* IsActive reported the network inactive, directly after that report, and
\* at most once; when IsActive reported it active no activate is issued.
C7_ReactivationOnlyWhenInactive ==
    op \in {"update", "delete"} =>
        /\ \A i \in 1..Len(calls) :
              calls[i][1] = "Create" =>
                  (i = 3 /\ calls[2] = <<"IsActive", "false">>)
        /\ (Len(calls) >= 2 /\ calls[2] = <<"IsActive", "false">>) =>
              (Len(calls) >= 3 \/ pc \in {"UpdateActivate", "DeleteActivate"})

C7_Witness ==
    /\ op = "update" /\ pc = "done" /\ ret.status = "ok"
    /\ calls = <<<<"LookupNetworkByUUIDString", "found">>, <<"IsActive", "true">>,
                 <<"SetAutostart", "ok">>>>

\* C8: an Update issues no daemon call other than the lookup, IsActive, the
\* re-activation of a network reported inactive and SetAutostart; it issues
\* SetAutostart only when "autostart" changed, at most once, with the new
\* value, and only directly after IsActive reported active or the
\* re-activation succeeded; an Update that returns success leaves no change of
\* "autostart" unapplied.
UpdateIssues(c) ==
    /\ c[1] \in {"LookupNetworkByUUIDString", "IsActive", "Create", "SetAutostart"}
    /\ c[1] = "Create" => (calls # <<>> /\ Last(calls) = <<"IsActive", "false">>)
    /\ c[1] = "SetAutostart" =>
          /\ cfgAutostart # dAutostart
          /\ ~Issued("SetAutostart")
          /\ calls # <<>>
          /\ Last(calls) \in {<<"IsActive", "true">>, <<"Create", "ok">>}
          /\ c[2] = "ok" => svc'.autostart = cfgAutostart
    /\ svc' # svc => c \in {<<"Create", "ok">>, <<"SetAutostart", "ok">>}

C8_UpdateFrame ==
    /\ [][(op = "update" /\ op' = "update" /\ Len(calls') = Len(calls) + 1)
             => UpdateIssues(Last(calls'))]_vars
    /\ []((op = "update" /\ pc = "done" /\ ret.status = "ok")
             => dAutostart = cfgAutostart)

C8_Witness ==
    /\ op = "update" /\ pc = "done" /\ ret.status = "ok"
    /\ calls = <<<<"LookupNetworkByUUIDString", "found">>, <<"IsActive", "false">>,
                 <<"Create", "ok">>, <<"SetAutostart", "ok">>>>
    /\ svc.autostart = cfgAutostart

\* C9: Exists returns (false, nil) when the lookup reports not-found, an
\* error when the lookup fails otherwise, true exactly when the lookup
\* succeeds, and issues nothing but that one lookup.
C9_ExistsResult ==
    op = "exists" =>
        /\ Len(calls) <= 1
        /\ \A i \in 1..Len(calls) : calls[i][1] = "LookupNetworkByUUIDString"
        /\ pc = "done" =>
              /\ ret.value <=> (calls = <<<<"LookupNetworkByUUIDString", "found">>>>)
              /\ calls = <<<<"LookupNetworkByUUIDString", "notfound">>>>
                    => (ret.status = "ok" /\ ~ret.value)
              /\ calls = <<<<"LookupNetworkByUUIDString", "err">>>>
                    => ret.status = "error"
              /\ ret.value => ret.status = "ok"
              /\ ~virConnNil => Len(calls) = 1

C9_Witness ==
    /\ op = "exists" /\ pc = "done"
    /\ calls = <<<<"LookupNetworkByUUIDString", "notfound">>>>
    /\ ret.status = "ok" /\ ~ret.value

\* C10 (as claimed): every CIDR block with fewer than 4 usable addresses,
\* 2^(bits - prefix) - 2 < 4, is refused by the address planner with a
\* range-too-small error, and no IP block and no DHCP range come back.
UsableTooFew(bits, ones) ==
    bits - ones <= 30 /\ Pow2(bits - ones) - 2 < 4

C10_SmallBlocksRefused ==
    (pc = "planned" /\ ~ParseCIDR(planIn).err
        /\ UsableTooFew(ParseCIDR(planIn).bits, ParseCIDR(planIn).ones)) =>
        /\ planOut.err = "RangeTooSmall"
        /\ planOut.dni = NoIP
        /\ planOut.dhcp = NoDHCP

\* ------------------------------------------------------------------- C11
\* addresses as numbers: byte sequences compared most significant byte first
AddrLess(a, b) ==
    \E i \in 1..Len(a) : a[i] < b[i] /\ \A j \in 1..(i - 1) : a[j] = b[j]
AddrLessEq(a, b) == a = b \/ AddrLess(a, b)

Max(S) == CHOOSE x \in S : \A y \in S : x >= y

\* a + 1 and a - 1 with the carry running through all bytes
AddrSucc(a) ==
    LET S == {i \in 1..Len(a) : a[i] < 255} IN
    IF S = {} THEN [i \in 1..Len(a) |-> 0]
    ELSE [i \in 1..Len(a) |->
             IF i < Max(S) THEN a[i] ELSE IF i = Max(S) THEN a[i] + 1 ELSE 0]
AddrPred(a) ==
    LET S == {i \in 1..Len(a) : a[i] > 0} IN
    IF S = {} THEN [i \in 1..Len(a) |-> 255]
    ELSE [i \in 1..Len(a) |->
             IF i < Max(S) THEN a[i] ELSE IF i = Max(S) THEN a[i] - 1 ELSE 255]

\* the last address of the block that starts at network address ip
Broadcast(ip, ones) ==
    [i \in 1..Len(ip) |-> ip[i] + Pow2(8 - MaskBits(ones, i)) - 1]

\* C11 (as claimed): for every block the address planner accepts, the
\* interface address is network + 1, the DHCP range starts at network + 2
\* and ends at broadcast - 1, start <= end, and the range lies strictly
\* inside the block, above the interface address and below the broadcast
\* address; none of the last-byte steps wraps around.
C11_PlannedRangeInsideBlock ==
    (pc = "planned" /\ planOut.err = "none") =>
        LET network   == ParseCIDR(planIn).IP
            broadcast == Broadcast(network, ParseCIDR(planIn).ones)
        IN /\ planOut.dni.Address = AddrSucc(network)
           /\ planOut.dhcp.Start = AddrSucc(AddrSucc(network))
           /\ planOut.dhcp.End = AddrPred(broadcast)
           /\ AddrLessEq(planOut.dhcp.Start, planOut.dhcp.End)
           /\ AddrLess(network, planOut.dni.Address)
           /\ AddrLess(planOut.dni.Address, planOut.dhcp.Start)
           /\ AddrLess(planOut.dhcp.End, broadcast)

\* the same, for the blocks that do have at least 4 usable addresses
C11_RoomyBlocksPlannedInside ==
    UsableTooFew(ParseCIDR(planIn).bits, ParseCIDR(planIn).ones)
        \/ C11_PlannedRangeInsideBlock

\* ------------------------------------------------------------------- C12
\* the address bits of a CIDR entry below its prefix are all zero
HostBitsZero(entry) == MaskIP(entry.ip, entry.prefix) = entry.ip

Plannable(c) ==
    /\ \A i \in 1..Len(c.addresses) : setNetworkIP(c.addresses[i]).err = "none"
    /\ buildForwarders(c.forwarders).err = "none"

\* the definition has no forward block and one IP block per address, each
\* with its DHCP range when DHCP is enabled
BuiltIsolated(c, out) ==
    /\ out.err = "none"
    /\ out.def.Forward = Nil
    /\ Len(out.def.IPs) = Len(c.addresses)
    /\ \A i \in 1..Len(out.def.IPs) :
          /\ out.def.IPs[i].Address = setNetworkIP(c.addresses[i]).dni.Address
          /\ c.dhcp => out.def.IPs[i].DHCP = setNetworkIP(c.addresses[i]).dhcp

\* C13 (as claimed): build with mode "isolated", in any letter case, and
\* otherwise acceptable addresses and forwarders succeeds, with no forward
\* block and with the IP blocks and DHCP ranges planned for the addresses.
C13_IsolatedModeBuilds ==
    (pc = "built" /\ bCfg.mode \in {"isolated", "Isolated"} /\ Plannable(bCfg)) =>
        BuiltIsolated(bCfg, bOut)

\* the same for the mode string the code does accept for an isolated network
C13_NoneModeBuilds ==
    (pc = "built" /\ bCfg.mode = "none" /\ Plannable(bCfg)) =>
        BuiltIsolated(bCfg, bOut)

\* ------------------------------------------------------------------- C14
\* C14: build in bridge mode fails with the missing-bridge error when the
\* bridge name is empty; with a bridge name it succeeds whatever "addresses"
\* holds, and the definition has no forward block and no IP block.
C14_BridgeModeSkipsAddresses ==
    (pc = "built" /\ bCfg.mode \in {"bridge", "Bridge"}) =>
        IF bCfg.bridge = ""
        THEN bOut.err = "MissingBridge"
        ELSE /\ bOut.err = "none"
             /\ bOut.def.Forward = Nil
             /\ bOut.def.IPs = <<>>

C14_Witness ==
    /\ pc = "built"
    /\ bCfg.mode = "bridge"
    /\ bCfg.bridge = "br0"
    /\ \E i \in 1..Len(bCfg.addresses) : setNetworkIP(bCfg.addresses[i]).err # "none"
    /\ bOut.err = "none"

\* ------------------------------------------------------------------- C15
AddressesPlannable(c) ==
    \A i \in 1..Len(c.addresses) : setNetworkIP(c.addresses[i]).err = "none"

\* one forwarder per entry, in order, each domain as it was written
OneForwarderPerEntry(c, out) ==
    /\ out.err = "none"
    /\ out.def.hasDNS
    /\ Len(out.def.DNS) = Len(c.forwarders)
    /\ \A i \in 1..Len(c.forwarders) : out.def.DNS[i].Domain = c.forwarders[i].domain

C16_FoundLookupKeepsPolling ==
    (InDeleteWait /\ Last(calls) = <<"LookupNetworkByUUIDString", "found">>) =>
        \/ pc = "WaitDestroyed"
        \/ (pc = "done" /\ ret.status = "error" /\ ret.why = "timeout")

\* ------------------------------------------------------------------- C17
DefineSucceeded ==
    \E i \in 1..Len(calls) : calls[i] = <<"NetworkDefineXML", "ok">>

\* C17 (as claimed): whenever Create has returned an error after its define
\* call succeeded, the network's UUID is recorded as the resource ID.
C17_NoOrphanedNetwork ==
    (op = "create" /\ pc = "done" /\ ret.status = "error" /\ DefineSucceeded) =>
        dId = UUID

\* the same, for the failures that come after the UUID was fetched
C17_IdKeptOnceUuidFetched ==
    (/\ op = "create" /\ pc = "done" /\ ret.status = "error"
     /\ \E i \in 1..Len(calls) : calls[i] = <<"GetUUIDString", "ok">>) =>
        dId = UUID

\* ------------------------------------------------------------------- C18
\* C18 (as claimed): Create and Delete check the state only between the
\* initial delay and the deadline, and every invocation ends with success
\* or with an error.
C18_WaitsEndInTime ==
    op \in {"create", "delete"} =>
        /\ pc \in {"WaitActive", "WaitDestroyed"} =>
              (elapsed >= Delay /\ elapsed <= Timeout)
        /\ pc = "done" => ret.status \in {"ok", "error"}

\* the timing part alone
C18_ChecksWithinDeadline ==
    (op \in {"create", "delete"} /\ pc \in {"WaitActive", "WaitDestroyed"}) =>
        (elapsed >= Delay /\ elapsed <= Timeout)

\* ------------------------------------------------------------------- C19
DefineAnswered(log, outcome) ==
    \E i \in 1..Len(log) : log[i] = <<"NetworkDefineXML", outcome>>

\* C19: of two concurrent Creates of the same name at most one define
\* succeeds; a Create whose define was refused has returned the define
\* error, has recorded no resource ID, and its refused define is the last
\* call it issued (no activate, stop or undefine follows).
C19_LoserLeavesWinnerAlone ==
    /\ ~(DefineAnswered(calls, "ok") /\ DefineAnswered(rivalCalls, "ok"))
    /\ DefineAnswered(calls, "err") =>
          /\ pc = "done"
          /\ ret = [status |-> "error", why |-> "NetworkDefineXML", value |-> FALSE]
          /\ dId = ""
          /\ Last(calls) = <<"NetworkDefineXML", "err">>
    /\ DefineAnswered(rivalCalls, "err") =>
          /\ rivalPc = "done"
          /\ rivalRet = [status |-> "error", why |-> "NetworkDefineXML", value |-> FALSE]
          /\ rivalId = ""
          /\ Last(rivalCalls) = <<"NetworkDefineXML", "err">>

\* the rival's define went through first, this Create's define was refused,
\* and the rival finished its Create on the network it defined
C19_Witness ==
    /\ DefineAnswered(rivalCalls, "ok")
    /\ DefineAnswered(calls, "err")
    /\ pc = "done"
    /\ rivalPc = "done" /\ rivalRet.status = "ok"
    /\ svc.defined = "defined"

====
